---- MODULE Spec2Model ----
(***************************************************************************)
(* Soft-delete policy layer of loopback4-soft-delete:                      *)
(* DefaultTransactionSoftCrudRepository                                    *)
(* (src/repositories/default-transaction-soft-crud.repository.base.ts).    *)
(*                                                                         *)
(* The repository sits on an underlying CRUD store (the super class).      *)
(* Every call of the layer is modelled with the suspension points the      *)
(* code has: one step per awaited accessor or store call; the clock and    *)
(* the accessor's answer may change between the steps of a call.           *)
(*                                                                         *)
(* Spec has one caller, every argument and a store that may fail any call. *)
(* SpecConcurrent has two callers whose calls interleave at the awaits and *)
(* who pass one filter object to every call.                               *)
(***************************************************************************)
EXTENDS Integers, Sequences, FiniteSets, TLC

\* ---------------------------------------------------------------- bounds
MaxClock == 2
MaxLimit == 1

\* ------------------------------------------------------------ value sets
\* An optional value is a sequence of length 0 (undefined) or 1.
None == <<>>
Some(x) == <<x>>

\* The ids of the records, in the order the store returns them.
IdOrder == <<1, 2>>
Ids == {IdOrder[k] : k \in DOMAIN IdOrder}
Procs == {"c1"}
Statuses == {"pending", "done"}
Dates == 1..MaxClock

\* SoftDeleteEntity: id, one ordinary field, and the three soft-delete fields.
Entity == [id : Ids, status : Statuses, deleted : BOOLEAN,
           deletedOn : {None} \cup {Some(d) : d \in Dates},
           deletedBy : {None, Some("u1"), Some("u2")}]

\* IAuthUser objects the accessor or the options bag can carry (id optional).
AuthUsers == {[id |-> None], [id |-> Some("u1")]}
FallbackUser == [id |-> Some("u2")]
\* Options bag: undefined, or a bag with a fallback currentUser.
OptionsBags == {None, Some([currentUser |-> Some(FallbackUser)])}

\* A where clause is a conjunction of equality conditions <<field, value>>;
\* the empty conjunction stands for an absent / empty where.
Wheres == {{}, {<<"status", "pending">>}, {<<"deleted", TRUE>>}}
Limits == {None} \cup {Some(n) : n \in 1..MaxLimit}
\* A filter is absent, or carries a where, or a limit.
Filters == {None} \cup {Some([where |-> w, limit |-> None]) : w \in Wheres}
                  \cup {Some([where |-> {}, limit |-> l]) : l \in Limits \ {None}}

\* Caller data patches for updateAll: a record over a subset of the fields.
Patches == {[status |-> "done"], [deleted |-> FALSE], [deleted |-> TRUE]}

\* ------------------------------------------------ underlying store (super)
\* A store value s is a function from the ids present to their records.
Match(r, w) == \A c \in w : r[c[1]] = c[2]

RECURSIVE Scan(_, _, _)
Scan(s, w, k) ==
  IF k > Len(IdOrder) THEN <<>>
  ELSE LET i == IdOrder[k]
       IN IF i \in DOMAIN s /\ Match(s[i], w)
          THEN <<s[i]>> \o Scan(s, w, k + 1)
          ELSE Scan(s, w, k + 1)

Take(q, l) == IF l = None \/ Len(q) <= l[1] THEN q ELSE SubSeq(q, 1, l[1])

\* find(filter): records matching filter.where in id order, cut to filter.limit.
StoreFind(s, filter) ==
  IF filter = None THEN Scan(s, {}, 1)
  ELSE Take(Scan(s, filter[1].where, 1), filter[1].limit)

\* findOne(filter): the first record find would return, or null (None).
StoreFindOne(s, filter) ==
  LET q == IF filter = None THEN Scan(s, {}, 1) ELSE Scan(s, filter[1].where, 1)
  IN IF q = <<>> THEN None ELSE Some(q[1])

\* findById(id, filter): the parent takes a FilterExcludingWhere, the where
\* of the filter is not applied; fetch is by id only.
StoreFindById(s, id, filter) == IF id \in DOMAIN s THEN Some(s[id]) ELSE None

Pick(r, d, f) == IF f \in DOMAIN d THEN d[f] ELSE r[f]
Apply(r, d) == [id |-> Pick(r, d, "id"), status |-> Pick(r, d, "status"),
                deleted |-> Pick(r, d, "deleted"),
                deletedOn |-> Pick(r, d, "deletedOn"),
                deletedBy |-> Pick(r, d, "deletedBy")]

Matching(s, w) == {i \in DOMAIN s : Match(s[i], w)}

StoreUpdateAll(s, data, w) ==
  [i \in DOMAIN s |-> IF Match(s[i], w) THEN Apply(s[i], data) ELSE s[i]]

StoreCount(s, w) == Cardinality(Matching(s, w))

StoreUpdateById(s, id, data) ==
  [i \in DOMAIN s |-> IF i = id THEN Apply(s[i], data) ELSE s[i]]

StoreDeleteById(s, id) == [i \in DOMAIN s \ {id} |-> s[i]]

StoreDeleteAll(s, w) == [i \in DOMAIN s \ Matching(s, w) |-> s[i]]

\* ------------------------------------------------------ predicate rewriter
SoftDeleteCond == <<"deleted", FALSE>>

produceSoftDeleteWhere(w) == w \cup {SoftDeleteCond}

produceSoftDeleteFilter(filter, extra) ==
  IF filter = None
  THEN Some([where |-> {SoftDeleteCond} \cup extra, limit |-> None])
  ELSE Some([where |-> filter[1].where \cup {SoftDeleteCond} \cup extra,
             limit |-> filter[1].limit])

FilterObjectAfter_inPlace(filter, extra) ==
  IF filter = None THEN None ELSE produceSoftDeleteFilter(filter, extra)

\* The filter object of the caller after produceSoftDeleteFilter(filter, extra)
\* has returned: the rewriter builds a new filter and leaves the object it
\* was given as it was (undefined stays undefined).
FilterObjectAfter(filter, extra) == filter

\* The where object of the caller after produceSoftDeleteWhere(where).
WhereObjectAfter(where) == where

\* ------------------------------------------------------- deletion stamper
getUserId_alwaysUndefined(accessor, options) == None

\* getUserId(options): accessor is the value of this.getCurrentUser, None when
\* the constructor got no accessor, Some(a) when the accessor now yields a.
getUserId(accessor, options) ==
  IF accessor = None THEN None
  ELSE LET fromOptions == IF options = None THEN None ELSE options[1].currentUser
           currentUser == IF accessor[1] # None THEN accessor[1] ELSE fromOptions
       IN IF currentUser = None \/ currentUser[1].id = None
          THEN None
          ELSE currentUser[1].id

\* ------------------------------------------------------------------ state
VARIABLES
  store,           \* the underlying store: ids present -> record
  now,             \* the wall clock read by new Date()
  getCurrentUser,  \* the injected accessor and what it yields now
  pc,              \* per caller: where its call in progress stands
  frame,           \* per caller: arguments and locals of the call in progress
  ret,             \* outcome of the step taken last
  shared           \* the filter object the callers hold and pass again

vars == <<store, now, getCurrentUser, pc, frame, ret, shared>>

AccessorAnswers == {None} \cup {Some(u) : u \in AuthUsers}

IdleFrame == [id |-> 1, filter |-> None, where |-> {}, options |-> None,
              entity |-> None, deletedOn |-> None, deletedBy |-> None]

\* An outcome: the operation, how the step ended, the id, the where or the
\* data patch the call was given, and the value returned or the entity object as it now is.
NoRet == [op |-> "", kind |-> "", id |-> 1, where |-> {}, data |-> None,
          recs |-> <<>>, count |-> 0, entity |-> None]

Outcome(op, kind, arg) ==
  [op |-> op, kind |-> kind, id |-> arg.id, where |-> arg.where, data |-> None,
   recs |-> <<>>, count |-> 0, entity |-> None]

Live(i, st) == [id |-> i, status |-> st, deleted |-> FALSE,
                deletedOn |-> None, deletedBy |-> None]

\* Records are inserted through the store with deleted = false and no
\* deletion metadata; the accessor is fixed at construction.
Init ==
  /\ \E st \in [Ids -> Statuses] : store = [i \in Ids |-> Live(i, st[i])]
  /\ now = 1
  /\ getCurrentUser \in {None} \cup {Some(a) : a \in AccessorAnswers}
  /\ pc = [p \in Procs |-> "idle"]
  /\ frame = [p \in Procs |-> IdleFrame]
  /\ ret = NoRet
  /\ shared = None

\* A store call either is served or fails with an error of the store
\* (connectivity, constraint violation); a failed call changes nothing.
StoreFails == BOOLEAN

Idle(p) == pc[p] = "idle"

\* The caller p gets the outcome r of a call that ends and returns to idle.
Finish(p, r) ==
  /\ ret' = r
  /\ pc' = [pc EXCEPT ![p] = "idle"]
  /\ frame' = [frame EXCEPT ![p] = IdleFrame]

\* A call is given the filter object the callers hold when its filter is that
\* object; the object is then as the rewriter leaves it.
PassFilter(filter, extra) ==
  shared' = IF filter = shared THEN FilterObjectAfter(filter, extra) ELSE shared

\* The same for a call that is given the where object of the held filter.
PassWhere(where) ==
  shared' = IF shared # None /\ where = shared[1].where
            THEN Some([shared[1] EXCEPT !.where = WhereObjectAfter(where)])
            ELSE shared

\* ------------------------------------------------------------------ reads
find_unfiltered(s, filter) == StoreFind(s, filter)

\* find(filter, options)
find(s, filter) == StoreFind(s, produceSoftDeleteFilter(filter, {}))

Find(p, filter, fail) ==
  /\ Idle(p)
  /\ LET arg == [IdleFrame EXCEPT !.filter = filter]
     IN Finish(p, IF fail THEN Outcome("find", "StoreError", IdleFrame)
                  ELSE [Outcome("find", "ok", arg) EXCEPT !.recs = find(store, filter)])
  /\ PassFilter(filter, {})
  /\ UNCHANGED <<store, now, getCurrentUser>>

\* findAll(filter, options)
findAll(s, filter) == StoreFind(s, filter)

FindAll(p, filter, fail) ==
  /\ Idle(p)
  /\ LET arg == [IdleFrame EXCEPT !.filter = filter]
     IN Finish(p, IF fail THEN Outcome("findAll", "StoreError", IdleFrame)
                  ELSE [Outcome("findAll", "ok", arg) EXCEPT !.recs = findAll(store, filter)])
  /\ UNCHANGED <<store, now, getCurrentUser, shared>>

findOne_callerWins(s, filter) ==
  IF filter # None /\ \E c \in filter[1].where : c[1] = "deleted"
  THEN StoreFindOne(s, filter)
  ELSE StoreFindOne(s, produceSoftDeleteFilter(filter, {}))

\* findOne(filter, options)
findOne(s, filter) == StoreFindOne(s, produceSoftDeleteFilter(filter, {}))

FindOne(p, filter, fail) ==
  /\ Idle(p)
  /\ LET arg == [IdleFrame EXCEPT !.filter = filter]
     IN Finish(p, IF fail THEN Outcome("findOne", "StoreError", IdleFrame)
                  ELSE [Outcome("findOne", "ok", arg) EXCEPT !.recs = findOne(store, filter)])
  /\ PassFilter(filter, {})
  /\ UNCHANGED <<store, now, getCurrentUser>>

\* findOneIncludeSoftDelete(filter, options)
findOneIncludeSoftDelete(s, filter) == StoreFindOne(s, filter)

FindOneIncludeSoftDelete(p, filter, fail) ==
  /\ Idle(p)
  /\ LET arg == [IdleFrame EXCEPT !.filter = filter]
     IN Finish(p, IF fail THEN Outcome("findOneIncludeSoftDelete", "StoreError", IdleFrame)
                  ELSE [Outcome("findOneIncludeSoftDelete", "ok", arg)
                          EXCEPT !.recs = findOneIncludeSoftDelete(store, filter)])
  /\ UNCHANGED <<store, now, getCurrentUser, shared>>

\* findById(id, filter, options), first step: the filter is rewritten with
\* the id constraint and the probe super.findOne is awaited.
findByIdFilter_idOnly(id, filter) ==
  IF filter = None
  THEN Some([where |-> {<<"id", id>>}, limit |-> None])
  ELSE Some([where |-> filter[1].where \cup {<<"id", id>>}, limit |-> filter[1].limit])

findByIdFilter(id, filter) == produceSoftDeleteFilter(filter, {<<"id", id>>})

FindByIdProbe(p, id, filter, fail) ==
  /\ Idle(p)
  /\ LET arg == [IdleFrame EXCEPT !.id = id, !.filter = filter]
         entityToRemove == StoreFindOne(store, findByIdFilter(id, filter))
     IN IF fail THEN Finish(p, Outcome("findById", "StoreError", IdleFrame))
        ELSE IF entityToRemove # None
        THEN /\ pc' = [pc EXCEPT ![p] = "findById_fetch"]
             /\ frame' = [frame EXCEPT ![p] = [arg EXCEPT !.entity = entityToRemove]]
             /\ ret' = Outcome("findById", "probed", arg)
        ELSE Finish(p, Outcome("findById", "EntityNotFound", arg))
  /\ PassFilter(filter, {<<"id", id>>})
  /\ UNCHANGED <<store, now, getCurrentUser>>

FindByIdFetch_appliesWhere(p, fail) ==
  /\ pc[p] = "findById_fetch"
  /\ LET arg == frame[p]
         got == StoreFindOne(store, findByIdFilter(arg.id, arg.filter))
     IN Finish(p, IF fail THEN Outcome("findById", "StoreError", IdleFrame)
                  ELSE IF got = None THEN Outcome("findById", "StoreNotFound", arg)
                  ELSE [Outcome("findById", "ok", arg) EXCEPT !.recs = got])
  /\ UNCHANGED <<store, now, getCurrentUser, shared>>

FindByIdFetch_wrapsNotFound(p, fail) ==
  /\ pc[p] = "findById_fetch"
  /\ LET arg == frame[p]
         got == StoreFindById(store, arg.id, findByIdFilter(arg.id, arg.filter))
     IN Finish(p, IF fail THEN Outcome("findById", "StoreError", IdleFrame)
                  ELSE IF got = None THEN Outcome("findById", "EntityNotFound", arg)
                  ELSE [Outcome("findById", "ok", arg) EXCEPT !.recs = got])
  /\ UNCHANGED <<store, now, getCurrentUser, shared>>

\* findById, second step: super.findById(id, filter, options).
FindByIdFetch(p, fail) ==
  /\ pc[p] = "findById_fetch"
  /\ LET arg == frame[p]
         got == StoreFindById(store, arg.id, findByIdFilter(arg.id, arg.filter))
     IN Finish(p, IF fail THEN Outcome("findById", "StoreError", IdleFrame)
                  ELSE IF got = None THEN Outcome("findById", "StoreNotFound", arg)
                  ELSE [Outcome("findById", "ok", arg) EXCEPT !.recs = got])
  /\ UNCHANGED <<store, now, getCurrentUser, shared>>

\* findByIdIncludeSoftDelete(id, filter, options)
FindByIdIncludeSoftDelete(p, id, filter, fail) ==
  /\ Idle(p)
  /\ LET arg == [IdleFrame EXCEPT !.id = id, !.filter = filter]
         got == StoreFindById(store, id, filter)
     IN Finish(p, IF fail THEN Outcome("findByIdIncludeSoftDelete", "StoreError", IdleFrame)
                  ELSE IF got = None
                  THEN Outcome("findByIdIncludeSoftDelete", "StoreNotFound", arg)
                  ELSE [Outcome("findByIdIncludeSoftDelete", "ok", arg) EXCEPT !.recs = got])
  /\ UNCHANGED <<store, now, getCurrentUser, shared>>

\* count(where, options)
count(s, where) == StoreCount(s, produceSoftDeleteWhere(where))

Count(p, where, fail) ==
  /\ Idle(p)
  /\ LET arg == [IdleFrame EXCEPT !.where = where]
     IN Finish(p, IF fail THEN Outcome("count", "StoreError", IdleFrame)
                  ELSE [Outcome("count", "ok", arg) EXCEPT !.count = count(store, where)])
  /\ PassWhere(where)
  /\ UNCHANGED <<store, now, getCurrentUser>>

\* ----------------------------------------------------------------- writes
updateAll_unfiltered(s, data, where) == StoreUpdateAll(s, data, where)

\* updateAll(data, where, options)
updateAll(s, data, where) == StoreUpdateAll(s, data, produceSoftDeleteWhere(where))

updateAllCount(s, where) == StoreCount(s, produceSoftDeleteWhere(where))

UpdateAll(p, data, where, fail) ==
  /\ Idle(p)
  /\ LET arg == [IdleFrame EXCEPT !.where = where]
     IN IF fail
        THEN /\ Finish(p, Outcome("updateAll", "StoreError", IdleFrame))
             /\ UNCHANGED store
        ELSE /\ store' = updateAll(store, data, where)
             /\ Finish(p, [Outcome("updateAll", "ok", arg)
                             EXCEPT !.count = updateAllCount(store, where),
                                    !.data = Some(data)])
  /\ PassWhere(where)
  /\ UNCHANGED <<now, getCurrentUser>>

\* The entity objects a caller passes: a record as read from the store, or
\* the very object the call that ended last was given.
EntityArgs == {store[i] : i \in DOMAIN store}
              \cup (IF ret.entity = None THEN {} ELSE {ret.entity[1]})

tombstone_noDate(f) == [deleted |-> TRUE, deletedOn |-> None, deletedBy |-> f.deletedBy]

\* The patch object {deleted: true, deletedOn, deletedBy} of deleteAll and
\* deleteById, from the values the call has read.
tombstone(f) == [deleted |-> TRUE, deletedOn |-> f.deletedOn, deletedBy |-> f.deletedBy]

DeleteCall_toggle(p, entity, options) ==
  /\ Idle(p)
  /\ LET stamped == [entity EXCEPT !.deleted = ~entity.deleted, !.deletedOn = Some(now)]
         f == [IdleFrame EXCEPT !.id = entity.id, !.options = options,
                                !.entity = Some(stamped)]
     IN /\ frame' = [frame EXCEPT ![p] = f]
        /\ ret' = [Outcome("delete", "stamped", f) EXCEPT !.entity = f.entity]
  /\ pc' = [pc EXCEPT ![p] = "delete_getUserId"]
  /\ UNCHANGED <<store, now, getCurrentUser, shared>>

\* delete(entity, options), up to the await: the caller's entity is stamped
\* deleted with new Date(), then getUserId() is awaited.
DeleteCall(p, entity, options) ==
  /\ Idle(p)
  /\ LET stamped == [entity EXCEPT !.deleted = TRUE, !.deletedOn = Some(now)]
         f == [IdleFrame EXCEPT !.id = entity.id, !.options = options,
                                !.entity = Some(stamped)]
     IN /\ frame' = [frame EXCEPT ![p] = f]
        /\ ret' = [Outcome("delete", "stamped", f) EXCEPT !.entity = f.entity]
  /\ pc' = [pc EXCEPT ![p] = "delete_getUserId"]
  /\ UNCHANGED <<store, now, getCurrentUser, shared>>

\* delete: getUserId() resolves (it is called without the options) and its
\* value is assigned to entity.deletedBy.  From here on the options are only
\* forwarded to the store, which does not interpret them: the frame drops them.
DeleteGetUserId(p) ==
  /\ pc[p] = "delete_getUserId"
  /\ LET e == [frame[p].entity[1] EXCEPT !.deletedBy = getUserId(getCurrentUser, None)]
         f == [frame[p] EXCEPT !.entity = Some(e), !.options = None]
     IN /\ frame' = [frame EXCEPT ![p] = f]
        /\ ret' = [Outcome("delete", "resolved", f) EXCEPT !.entity = f.entity]
  /\ pc' = [pc EXCEPT ![p] = "delete_update"]
  /\ UNCHANGED <<store, now, getCurrentUser, shared>>

DeleteUpdate_unstampsOnFailure(p, fail) ==
  /\ pc[p] = "delete_update"
  /\ LET f == frame[p]
         e == f.entity[1]
         unstamped == Some([e EXCEPT !.deleted = FALSE, !.deletedOn = None,
                                     !.deletedBy = None])
     IN IF fail
        THEN /\ Finish(p, [Outcome("delete", "StoreError", IdleFrame) EXCEPT !.entity = unstamped])
             /\ UNCHANGED store
        ELSE IF e.id \notin DOMAIN store
        THEN /\ Finish(p, [Outcome("delete", "StoreNotFound", f) EXCEPT !.entity = unstamped])
             /\ UNCHANGED store
        ELSE /\ store' = StoreUpdateById(store, e.id, e)
             /\ Finish(p, [Outcome("delete", "ok", f) EXCEPT !.entity = f.entity])
  /\ UNCHANGED <<now, getCurrentUser, shared>>

\* delete: super.update(entity, options) writes the entity by its id.
DeleteUpdate(p, fail) ==
  /\ pc[p] = "delete_update"
  /\ LET f == frame[p]
         e == f.entity[1]
     IN IF fail
        THEN /\ Finish(p, [Outcome("delete", "StoreError", IdleFrame) EXCEPT !.entity = f.entity])
             /\ UNCHANGED store
        ELSE IF e.id \notin DOMAIN store
        THEN /\ Finish(p, [Outcome("delete", "StoreNotFound", f) EXCEPT !.entity = f.entity])
             /\ UNCHANGED store
        ELSE /\ store' = StoreUpdateById(store, e.id, e)
             /\ Finish(p, [Outcome("delete", "ok", f) EXCEPT !.entity = f.entity])
  /\ UNCHANGED <<now, getCurrentUser, shared>>

\* deleteAll(where, options), up to the await: new Date() is read while the
\* patch object is built, then getUserId() is awaited.
DeleteAllCall(p, where, options) ==
  /\ Idle(p)
  /\ LET f == [IdleFrame EXCEPT !.where = where, !.options = options,
                                !.deletedOn = Some(now)]
     IN /\ frame' = [frame EXCEPT ![p] = f]
        /\ ret' = Outcome("deleteAll", "stamped", f)
  /\ pc' = [pc EXCEPT ![p] = "deleteAll_getUserId"]
  /\ UNCHANGED <<store, now, getCurrentUser, shared>>

DeleteAllGetUserId(p) ==
  /\ pc[p] = "deleteAll_getUserId"
  /\ LET f == [frame[p] EXCEPT !.deletedBy = getUserId(getCurrentUser, None),
                               !.options = None]
     IN /\ frame' = [frame EXCEPT ![p] = f]
        /\ ret' = Outcome("deleteAll", "resolved", f)
  /\ pc' = [pc EXCEPT ![p] = "deleteAll_updateAll"]
  /\ UNCHANGED <<store, now, getCurrentUser, shared>>

DeleteAllUpdateAll_stampsAtWrite(p, fail) ==
  /\ pc[p] = "deleteAll_updateAll"
  /\ LET f == [frame[p] EXCEPT !.deletedOn = Some(now),
                               !.deletedBy = getUserId(getCurrentUser, None)]
     IN IF fail
        THEN /\ Finish(p, Outcome("deleteAll", "StoreError", IdleFrame))
             /\ UNCHANGED store
        ELSE /\ store' = updateAll(store, tombstone(f), f.where)
             /\ Finish(p, [Outcome("deleteAll", "ok", f)
                             EXCEPT !.count = updateAllCount(store, f.where)])
  /\ PassWhere(frame[p].where)
  /\ UNCHANGED <<now, getCurrentUser>>

DeleteAllUpdateAll_super(p, fail) ==
  /\ pc[p] = "deleteAll_updateAll"
  /\ LET f == frame[p]
     IN IF fail
        THEN /\ Finish(p, Outcome("deleteAll", "StoreError", IdleFrame))
             /\ UNCHANGED store
        ELSE /\ store' = StoreUpdateAll(store, tombstone(f), f.where)
             /\ Finish(p, [Outcome("deleteAll", "ok", f)
                             EXCEPT !.count = StoreCount(store, f.where)])
  /\ UNCHANGED <<now, getCurrentUser, shared>>

\* deleteAll: this.updateAll(patch, where, options).
DeleteAllUpdateAll(p, fail) ==
  /\ pc[p] = "deleteAll_updateAll"
  /\ LET f == frame[p]
     IN IF fail
        THEN /\ Finish(p, Outcome("deleteAll", "StoreError", IdleFrame))
             /\ UNCHANGED store
        ELSE /\ store' = updateAll(store, tombstone(f), f.where)
             /\ Finish(p, [Outcome("deleteAll", "ok", f)
                             EXCEPT !.count = updateAllCount(store, f.where)])
  /\ PassWhere(frame[p].where)
  /\ UNCHANGED <<now, getCurrentUser>>

\* deleteById(id, options), up to the await.
DeleteByIdCall(p, id, options) ==
  /\ Idle(p)
  /\ LET f == [IdleFrame EXCEPT !.id = id, !.options = options,
                                !.deletedOn = Some(now)]
     IN /\ frame' = [frame EXCEPT ![p] = f]
        /\ ret' = Outcome("deleteById", "stamped", f)
  /\ pc' = [pc EXCEPT ![p] = "deleteById_getUserId"]
  /\ UNCHANGED <<store, now, getCurrentUser, shared>>

DeleteByIdGetUserId(p) ==
  /\ pc[p] = "deleteById_getUserId"
  /\ LET f == [frame[p] EXCEPT !.deletedBy = getUserId(getCurrentUser, None),
                               !.options = None]
     IN /\ frame' = [frame EXCEPT ![p] = f]
        /\ ret' = Outcome("deleteById", "resolved", f)
  /\ pc' = [pc EXCEPT ![p] = "deleteById_updateById"]
  /\ UNCHANGED <<store, now, getCurrentUser, shared>>

DeleteByIdUpdateById_liveOnly(p, fail) ==
  /\ pc[p] = "deleteById_updateById"
  /\ LET f == frame[p]
     IN IF fail
        THEN /\ Finish(p, Outcome("deleteById", "StoreError", IdleFrame))
             /\ UNCHANGED store
        ELSE IF f.id \notin DOMAIN store \/ store[f.id].deleted
        THEN /\ Finish(p, Outcome("deleteById", "StoreNotFound", f))
             /\ UNCHANGED store
        ELSE /\ store' = StoreUpdateById(store, f.id, tombstone(f))
             /\ Finish(p, Outcome("deleteById", "ok", f))
  /\ UNCHANGED <<now, getCurrentUser, shared>>

\* deleteById: super.updateById(id, patch, options).
DeleteByIdUpdateById(p, fail) ==
  /\ pc[p] = "deleteById_updateById"
  /\ LET f == frame[p]
     IN IF fail
        THEN /\ Finish(p, Outcome("deleteById", "StoreError", IdleFrame))
             /\ UNCHANGED store
        ELSE IF f.id \notin DOMAIN store
        THEN /\ Finish(p, Outcome("deleteById", "StoreNotFound", f))
             /\ UNCHANGED store
        ELSE /\ store' = StoreUpdateById(store, f.id, tombstone(f))
             /\ Finish(p, Outcome("deleteById", "ok", f))
  /\ UNCHANGED <<now, getCurrentUser, shared>>

\* ----------------------------------------------------------- hard deletes
\* deleteHard(entity, options): super.deleteById(entity.getId(), options)
DeleteHard(p, entity, fail) ==
  /\ Idle(p)
  /\ LET arg == [IdleFrame EXCEPT !.id = entity.id]
         out(kind) == [Outcome("deleteHard", kind, arg) EXCEPT !.entity = Some(entity)]
     IN IF fail
        THEN /\ Finish(p, out("StoreError"))
             /\ UNCHANGED store
        ELSE IF entity.id \notin DOMAIN store
        THEN /\ Finish(p, out("StoreNotFound"))
             /\ UNCHANGED store
        ELSE /\ store' = StoreDeleteById(store, entity.id)
             /\ Finish(p, out("ok"))
  /\ UNCHANGED <<now, getCurrentUser, shared>>

\* deleteAllHard(where, options): super.deleteAll(where, options)
DeleteAllHard(p, where, fail) ==
  /\ Idle(p)
  /\ LET arg == [IdleFrame EXCEPT !.where = where]
     IN IF fail
        THEN /\ Finish(p, Outcome("deleteAllHard", "StoreError", IdleFrame))
             /\ UNCHANGED store
        ELSE /\ store' = StoreDeleteAll(store, where)
             /\ Finish(p, [Outcome("deleteAllHard", "ok", arg)
                             EXCEPT !.count = StoreCount(store, where)])
  /\ UNCHANGED <<now, getCurrentUser, shared>>

DeleteByIdHard_soft(p, id, fail) ==
  /\ Idle(p)
  /\ LET arg == [IdleFrame EXCEPT !.id = id]
     IN IF fail
        THEN /\ Finish(p, Outcome("deleteByIdHard", "StoreError", IdleFrame))
             /\ UNCHANGED store
        ELSE IF id \notin DOMAIN store
        THEN /\ Finish(p, Outcome("deleteByIdHard", "StoreNotFound", arg))
             /\ UNCHANGED store
        ELSE /\ store' = StoreUpdateById(store, id,
                            [deleted |-> TRUE, deletedOn |-> Some(now), deletedBy |-> None])
             /\ Finish(p, Outcome("deleteByIdHard", "ok", arg))
  /\ UNCHANGED <<now, getCurrentUser, shared>>

\* deleteByIdHard(id, options): super.deleteById(id, options)
DeleteByIdHard(p, id, fail) ==
  /\ Idle(p)
  /\ LET arg == [IdleFrame EXCEPT !.id = id]
     IN IF fail
        THEN /\ Finish(p, Outcome("deleteByIdHard", "StoreError", IdleFrame))
             /\ UNCHANGED store
        ELSE IF id \notin DOMAIN store
        THEN /\ Finish(p, Outcome("deleteByIdHard", "StoreNotFound", arg))
             /\ UNCHANGED store
        ELSE /\ store' = StoreDeleteById(store, id)
             /\ Finish(p, Outcome("deleteByIdHard", "ok", arg))
  /\ UNCHANGED <<now, getCurrentUser, shared>>

\* ------------------------------------------------------------ environment
\* The wall clock advances.
Tick ==
  /\ now < MaxClock
  /\ now' = now + 1
  /\ ret' = NoRet
  /\ UNCHANGED <<store, getCurrentUser, pc, frame, shared>>

\* The configured accessor starts to yield another user (or none).
SetUser(a) ==
  /\ getCurrentUser # None
  /\ getCurrentUser # Some(a)
  /\ getCurrentUser' = Some(a)
  /\ ret' = NoRet
  /\ UNCHANGED <<store, now, pc, frame, shared>>

\* The outcome of a call the store fails does not depend on the arguments of
\* the call: one choice of arguments stands for all of them.
ArgsOf(fail, S) == IF fail THEN {CHOOSE x \in S : TRUE} ELSE S

Next ==
  \/ \E p \in Procs, fail \in StoreFails :
       \/ \E filter \in ArgsOf(fail, Filters) :
            \/ Find(p, filter, fail)
            \/ FindAll(p, filter, fail)
            \/ FindOne(p, filter, fail)
            \/ FindOneIncludeSoftDelete(p, filter, fail)
            \/ \E id \in ArgsOf(fail, Ids) :
                 \/ FindByIdProbe(p, id, filter, fail)
                 \/ FindByIdIncludeSoftDelete(p, id, filter, fail)
       \/ FindByIdFetch(p, fail)
       \/ DeleteUpdate(p, fail)
       \/ DeleteAllUpdateAll(p, fail)
       \/ DeleteByIdUpdateById(p, fail)
       \/ \E where \in ArgsOf(fail, Wheres) :
            \/ Count(p, where, fail)
            \/ DeleteAllHard(p, where, fail)
            \/ \E data \in ArgsOf(fail, Patches) : UpdateAll(p, data, where, fail)
       \/ \E entity \in EntityArgs : DeleteHard(p, entity, fail)
       \/ \E id \in ArgsOf(fail, Ids) : DeleteByIdHard(p, id, fail)
  \/ \E p \in Procs, options \in OptionsBags :
       \/ \E entity \in EntityArgs : DeleteCall(p, entity, options)
       \/ \E where \in Wheres : DeleteAllCall(p, where, options)
       \/ \E id \in Ids : DeleteByIdCall(p, id, options)
  \/ \E p \in Procs :
       \/ DeleteGetUserId(p)
       \/ DeleteAllGetUserId(p)
       \/ DeleteByIdGetUserId(p)
  \/ Tick
  \/ \E a \in AccessorAnswers : SetUser(a)

Spec == Init /\ [][Next]_vars

\* ------------------------------------------ two callers, one filter object
\* Two callers whose calls interleave at the awaits.  Both hold the same
\* filter object and pass it (or its where) to every call that takes one.
Callers == {"c1", "c2"}

SharedFilters == Filters \ {None}

\* One record the where {status: "pending"} matches and one it does not.
InitConcurrent ==
  /\ store = [i \in Ids |-> Live(i, IF i = 1 THEN "pending" ELSE "done")]
  /\ now = 1
  /\ getCurrentUser = Some(Some([id |-> Some("u1")]))
  /\ pc = [p \in Callers |-> "idle"]
  /\ frame = [p \in Callers |-> IdleFrame]
  /\ ret = NoRet
  /\ shared \in SharedFilters

NextConcurrent ==
  \E p \in Callers :
    \/ \E fail \in StoreFails :
         \/ Find(p, shared, fail)
         \/ FindAll(p, shared, fail)
         \/ FindOne(p, shared, fail)
         \/ FindOneIncludeSoftDelete(p, shared, fail)
         \/ \E id \in ArgsOf(fail, Ids) :
              \/ FindByIdProbe(p, id, shared, fail)
              \/ FindByIdIncludeSoftDelete(p, id, shared, fail)
              \/ DeleteByIdHard(p, id, fail)
         \/ FindByIdFetch(p, fail)
         \/ Count(p, shared[1].where, fail)
         \/ \E data \in ArgsOf(fail, Patches) : UpdateAll(p, data, shared[1].where, fail)
         \/ DeleteUpdate(p, fail)
         \/ DeleteAllUpdateAll(p, fail)
         \/ DeleteByIdUpdateById(p, fail)
         \/ \E entity \in EntityArgs : DeleteHard(p, entity, fail)
         \/ DeleteAllHard(p, shared[1].where, fail)
    \/ \E entity \in EntityArgs : DeleteCall(p, entity, None)
    \/ DeleteGetUserId(p)
    \/ DeleteAllCall(p, shared[1].where, None)
    \/ DeleteAllGetUserId(p)
    \/ \E id \in Ids : DeleteByIdCall(p, id, None)
    \/ DeleteByIdGetUserId(p)

SpecConcurrent == InitConcurrent /\ [][NextConcurrent]_vars

\* ================================================================ claims
Tombstoned(s, i) == i \in DOMAIN s /\ s[i].deleted

LiveOnly(q) == SelectSeq(q, LAMBDA r : ~r.deleted)

WithoutLimit(filter) ==
  IF filter = None THEN None ELSE Some([filter[1] EXCEPT !.limit = None])

LimitOf(filter) == IF filter = None THEN None ELSE filter[1].limit

C2_FindByIdHidesTombstone ==
  [][/\ (ret'.op = "findById" /\ Tombstoned(store, ret'.id) /\ ret'.kind # "StoreError")
          => /\ ret'.kind = "EntityNotFound"
             /\ store' = store
             /\ \A p \in Procs : pc'[p] = "idle"
             /\ \A f \in Filters :
                  StoreFindById(store', ret'.id, f) = Some(store[ret'.id])
     /\ (ret'.op = "findByIdIncludeSoftDelete" /\ Tombstoned(store, ret'.id)
           /\ ret'.kind # "StoreError")
          => /\ ret'.kind = "ok"
             /\ ret'.recs = <<store[ret'.id]>>
             /\ store' = store]_vars

\* findById has just failed with EntityNotFound on a record that is stored,
\* tombstoned by a soft delete.
C2_Witness ==
  /\ ret.op = "findById" /\ ret.kind = "EntityNotFound"
  /\ Tombstoned(store, ret.id)
  /\ store[ret.id].deletedOn # None

\* C3: once a record is tombstoned, no updateAll(data, where) modifies it and
\* no count(where) counts it, for any where and any data patch, while
\* findAll with a where it matches still returns it.
C3_TombstonedOutOfUpdateAllAndCount ==
  [][/\ ret'.op = "updateAll" =>
          \A i \in Ids : Tombstoned(store, i) =>
             (i \in DOMAIN store' /\ store'[i] = store[i])
     /\ (ret'.op \in {"count", "updateAll"} /\ ret'.kind = "ok") =>
          ret'.count = Cardinality({j \in DOMAIN store :
                                      ~store[j].deleted /\ Match(store[j], ret'.where)})
     /\ ret'.op \in {"count", "updateAll"} =>
          LET all == findAll(store', Some([where |-> ret'.where, limit |-> None]))
          IN \A i \in Ids :
                (Tombstoned(store', i) /\ Match(store'[i], ret'.where)) =>
                   \E k \in DOMAIN all : all[k] = store'[i]]_vars

\* An updateAll has changed the one live record and left the tombstoned
\* record, which matched the same where, as it was.
C3_Witness ==
  /\ ret.op = "updateAll" /\ ret.kind = "ok" /\ ret.count = 1
  /\ Tombstoned(store, 1) /\ store[1].status = "pending" /\ store[1].deletedOn # None
  /\ 2 \in DOMAIN store /\ ~store[2].deleted /\ store[2].status = "done"

\* C4: after a hard delete that succeeded, every targeted record, live or
\* tombstoned, is absent from the store: findAll and
\* findByIdIncludeSoftDelete do not return it, and no step of any layer
\* operation adds a record to the store.
C4_HardDeleteRemovesForGood ==
  [][/\ DOMAIN store' \subseteq DOMAIN store
     /\ (ret'.op \in {"deleteHard", "deleteByIdHard"} /\ ret'.kind = "ok") =>
          /\ ret'.id \in DOMAIN store
          /\ DOMAIN store' = DOMAIN store \ {ret'.id}
     /\ (ret'.op = "deleteAllHard" /\ ret'.kind = "ok") =>
          /\ DOMAIN store' = DOMAIN store \ {i \in DOMAIN store : Match(store[i], ret'.where)}
          /\ ret'.count = Cardinality(DOMAIN store \ DOMAIN store')
     /\ ret'.op \in {"deleteHard", "deleteByIdHard", "deleteAllHard"} =>
          /\ \A j \in DOMAIN store' : store'[j] = store[j]
          /\ \A i \in Ids \ DOMAIN store', f \in Filters :
               /\ \A k \in DOMAIN findAll(store', f) : findAll(store', f)[k].id # i
               /\ StoreFindById(store', i, f) = None]_vars

\* deleteHard has just removed a record that was tombstoned.
C4_Witness ==
  /\ ret.op = "deleteHard" /\ ret.kind = "ok"
  /\ ret.entity # None /\ ret.entity[1].deleted /\ ret.entity[1].id = ret.id
  /\ ret.id \notin DOMAIN store

\* The step of caller p that ends its deleteAll with the store's updateAll served.
DeleteAllServed(p) ==
  pc[p] = "deleteAll_updateAll" /\ ret'.op = "deleteAll" /\ ret'.kind = "ok"

\* C5: deleteAll(where) tombstones exactly the records that match where and
\* are not yet tombstoned and returns their number; every other record, the
\* already tombstoned ones that match included, stays as it is.
C5_DeleteAllTouchesLiveMatchesOnly ==
  [][\A p \in Procs : DeleteAllServed(p) =>
       LET hit == {i \in DOMAIN store :
                     Match(store[i], frame[p].where) /\ ~store[i].deleted}
       IN /\ ret'.count = Cardinality(hit)
          /\ DOMAIN store' = DOMAIN store
          /\ \A i \in hit :
               store'[i] = [store[i] EXCEPT !.deleted = TRUE,
                                            !.deletedOn = frame[p].deletedOn,
                                            !.deletedBy = frame[p].deletedBy]
          /\ \A i \in DOMAIN store \ hit : store'[i] = store[i]]_vars

\* A deleteAll has tombstoned one record; the other record had been
\* tombstoned before, matches every where the first one matches, and still
\* carries its earlier timestamp.
C5_Witness ==
  /\ ret.op = "deleteAll" /\ ret.kind = "ok" /\ ret.count = 1
  /\ Tombstoned(store, 1) /\ Tombstoned(store, 2)
  /\ store[1].status = store[2].status
  /\ store[1].deletedOn = Some(1) /\ store[2].deletedOn = Some(2)

Consistent(r) == r.deleted <=> (r.deletedOn # None)

AllConsistent(s) == \A i \in DOMAIN s : Consistent(s[i])

\* C6 as stated: in every reachable state, updateAll with arbitrary data
\* patches included, every stored record has deleted = true iff deletedOn is set.
C6_DeletedIffDeletedOn == AllConsistent(store)

SetsSoftDeleteField(d) == "deleted" \in DOMAIN d \/ "deletedOn" \in DOMAIN d

\* C6 amended: records start with deleted = false and deletedOn unset, and
\* every step of the layer keeps deleted = true iff deletedOn is set on every
\* stored record, except an updateAll whose data patch sets deleted or deletedOn.
C6_DeletedIffDeletedOnUnlessPatched ==
  /\ AllConsistent(store)
  /\ [][(/\ AllConsistent(store)
         /\ ~(ret'.op = "updateAll" /\ ret'.data # None
                /\ SetsSoftDeleteField(ret'.data[1])))
          => AllConsistent(store')]_vars

\* A deleteAll has tombstoned a record: it has deleted = true and deletedOn
\* set, next to a live record with deleted = false and deletedOn unset.
C6_Witness ==
  /\ ret.op = "deleteAll" /\ ret.kind = "ok" /\ ret.count = 1
  /\ \E i, j \in DOMAIN store :
       /\ store[i].deleted /\ store[i].deletedOn # None
       /\ ~store[j].deleted /\ store[j].deletedOn = None

GetUserIdPcs == {"delete_getUserId", "deleteAll_getUserId", "deleteById_getUserId"}

UpdatePcs == {"delete_update", "deleteAll_updateAll", "deleteById_updateById"}

SoftDeleteOps == {"delete", "deleteAll", "deleteById"}

\* The deletedBy value a soft delete in progress has resolved.
Resolved(f) == IF f.entity # None THEN f.entity[1].deletedBy ELSE f.deletedBy

\* The deletedOn value a soft delete in progress has read.
Stamped(f) == IF f.entity # None THEN f.entity[1].deletedOn ELSE f.deletedOn

\* The step in which getUserId() resolves for caller p.
GetUserIdResolves(p) == pc[p] \in GetUserIdPcs /\ pc'[p] # pc[p]

\* C7: when the accessor is configured but yields no user, a soft delete
\* called with options that carry a currentUser with an id resolves
\* deletedBy to that user's id.
C7_FallbackUserStamped ==
  [][\A p \in Procs :
       (/\ GetUserIdResolves(p)
        /\ getCurrentUser = Some(None)
        /\ frame[p].options = Some([currentUser |-> Some(FallbackUser)]))
         => Resolved(frame'[p]) = FallbackUser.id]_vars

\* The id of the user the accessor yields now, if there is an accessor, a
\* user and an id.
AccessorUserId ==
  IF getCurrentUser = None \/ getCurrentUser[1] = None THEN None
  ELSE getCurrentUser[1][1].id

\* The ids a soft delete at its store step is aimed at.
Targets(p) ==
  IF pc[p] = "deleteAll_updateAll"
  THEN {i \in DOMAIN store : Match(store[i], frame[p].where) /\ ~store[i].deleted}
  ELSE {frame[p].id} \cap DOMAIN store

\* C8: resolving the actor never fails a soft delete.  getUserId() always
\* resolves: to undefined without accessor, without user or without id, to
\* the id u when the accessor yields a user with id u.  The soft delete then
\* fails only if the store call does, and otherwise leaves its records with
\* deleted = true, deletedOn set and deletedBy as resolved.
C8_ActorResolutionNeverBlocks ==
  [][\A p \in Procs :
       /\ GetUserIdResolves(p) =>
            /\ pc'[p] \in UpdatePcs
            /\ ret'.kind = "resolved"
            /\ Resolved(frame'[p]) = AccessorUserId
       /\ (pc[p] \in UpdatePcs /\ pc'[p] # pc[p]) =>
            /\ ret'.op \in SoftDeleteOps
            /\ ret'.kind \in {"ok", "StoreError", "StoreNotFound"}
            /\ ret'.kind = "StoreNotFound" => frame[p].id \notin DOMAIN store
            /\ ret'.kind = "ok" =>
                 \A i \in Targets(p) :
                    /\ store'[i].deleted
                    /\ store'[i].deletedOn # None
                    /\ store'[i].deletedOn = Stamped(frame[p])
                    /\ store'[i].deletedBy = Resolved(frame[p])]_vars

\* Soft deletes have completed with and without a resolved actor: one record
\* is tombstoned with deletedBy unset, the other with deletedBy "u1".
C8_Witness ==
  /\ ret.op \in SoftDeleteOps /\ ret.kind = "ok"
  /\ Tombstoned(store, 1) /\ store[1].deletedOn # None /\ store[1].deletedBy = None
  /\ Tombstoned(store, 2) /\ store[2].deletedOn # None /\ store[2].deletedBy = Some("u1")

\* C9: delete(e) on an entity that is already tombstoned (a second delete)
\* keeps deleted = true in the caller's entity through every step and in the
\* store, and writes the deletedOn and deletedBy of this call over the
\* earlier ones.
C9_DeleteTwiceKeepsFlagRestamps ==
  [][\A p \in Procs :
       /\ ret'.op = "delete" => (ret'.entity # None /\ ret'.entity[1].deleted)
       /\ (ret'.op = "delete" /\ ret'.kind = "stamped") =>
            /\ frame'[p].entity = ret'.entity
            /\ ret'.entity[1].deletedOn = Some(now)
       /\ (pc[p] = "delete_getUserId" /\ pc'[p] # pc[p]) =>
            /\ frame'[p].entity[1].deletedBy = AccessorUserId
            /\ frame'[p].entity[1].deletedOn = frame[p].entity[1].deletedOn
       /\ (pc[p] = "delete_update" /\ pc'[p] # pc[p]
             /\ ret'.kind # "StoreError" /\ Tombstoned(store, frame[p].id)) =>
            /\ ret'.kind = "ok"
            /\ ret'.entity = frame[p].entity
            /\ store'[frame[p].id].deleted
            /\ store'[frame[p].id].deletedOn = frame[p].entity[1].deletedOn
            /\ store'[frame[p].id].deletedBy = frame[p].entity[1].deletedBy]_vars

\* A second delete(e) is about to write: the stored record carries the first
\* call's stamp (clock 1, actor "u1"), the caller's entity carries the stamp
\* of this call (clock 2, no actor) and is still deleted.
C9_Witness ==
  \E p \in Procs :
    /\ pc[p] = "delete_update"
    /\ Tombstoned(store, frame[p].id)
    /\ store[frame[p].id].deletedOn = Some(1)
    /\ store[frame[p].id].deletedBy = Some("u1")
    /\ frame[p].entity[1].deleted
    /\ frame[p].entity[1].deletedOn = Some(2)
    /\ frame[p].entity[1].deletedBy = None

\* C10: deleteById(id) writes the tombstone patch by id whatever the record's
\* state: deleted = true, deletedOn = the clock at the call, deletedBy = the
\* resolved actor (unset without accessor), on a live record and again on a
\* tombstoned one; after it findById(id) fails with EntityNotFound and
\* findByIdIncludeSoftDelete(id) returns the record.
C10_DeleteByIdStampsUnconditionally ==
  [][\A p \in Procs :
       /\ (ret'.op = "deleteById" /\ ret'.kind = "stamped") =>
            frame'[p].deletedOn = Some(now)
       /\ (pc[p] = "deleteById_getUserId" /\ pc'[p] # pc[p]) =>
            /\ frame'[p].deletedOn = frame[p].deletedOn
            /\ getCurrentUser = None => frame'[p].deletedBy = None
       /\ (pc[p] = "deleteById_updateById" /\ pc'[p] # pc[p]
             /\ ret'.kind # "StoreError" /\ frame[p].id \in DOMAIN store) =>
            LET id == frame[p].id
            IN /\ ret'.kind = "ok"
               /\ DOMAIN store' = DOMAIN store
               /\ store'[id] = [store[id] EXCEPT !.deleted = TRUE,
                                                 !.deletedOn = frame[p].deletedOn,
                                                 !.deletedBy = frame[p].deletedBy]
               /\ \A j \in DOMAIN store \ {id} : store'[j] = store[j]
               /\ \A f \in Filters :
                    /\ StoreFindOne(store', findByIdFilter(id, f)) = None
                    /\ StoreFindById(store', id, f) = Some(store'[id])
       /\ (ret.op = "deleteById" /\ ret.kind = "ok" /\ ret'.id = ret.id
             /\ ret'.kind # "StoreError") =>
            /\ ret'.op = "findById" => ret'.kind = "EntityNotFound"
            /\ ret'.op = "findByIdIncludeSoftDelete" =>
                 (ret'.kind = "ok" /\ ret'.recs = <<store[ret.id]>>)]_vars

\* deleteById has completed without an accessor configured: the record is
\* tombstoned with deletedOn set and deletedBy unset.
C10_Witness ==
  /\ ret.op = "deleteById" /\ ret.kind = "ok"
  /\ getCurrentUser = None
  /\ Tombstoned(store, ret.id)
  /\ store[ret.id].deletedOn = Some(now)
  /\ store[ret.id].deletedBy = None

\* The filters of the callers whose where constrains deleted to true.
DeletedTrueFilters == {f \in Filters \ {None} : <<"deleted", TRUE>> \in f[1].where}

\* C11: in every reachable store state, tombstoned records included, find
\* and findOne with a filter whose where is {deleted: true} return no record
\* (the empty list, null), while findAll with that filter returns the
\* tombstoned records.
C11_DeletedTrueFilterFindsNothing ==
  \A f \in DeletedTrueFilters :
    /\ find(store, f) = <<>>
    /\ findOne(store, f) = None
    /\ \A i \in Ids : Tombstoned(store, i) =>
          \E k \in DOMAIN findAll(store, f) : findAll(store, f)[k] = store[i]

\* findOne has returned null although a live record with status "pending"
\* is stored, which every filter of the callers but {deleted: true} finds;
\* a tombstoned record is stored as well.
C11_Witness ==
  /\ ret.op = "findOne" /\ ret.kind = "ok" /\ ret.recs = None
  /\ Tombstoned(store, 1)
  /\ 2 \in DOMAIN store /\ ~store[2].deleted /\ store[2].status = "pending"

\* The where the callers built their filter object with: none of their
\* filters carries the exclusion condition.
CallerWhere(filter) == filter[1].where \ {SoftDeleteCond}

\* The tombstoned records a findAll with the callers' filter has to return.
TombstonedMatches(s, filter) ==
  {i \in DOMAIN s : s[i].deleted /\ Match(s[i], CallerWhere(filter))}

\* C12: the filter object the callers pass to find, findOne, findById,
\* updateAll (its where) and count is never changed by a call: it stays one
\* of the filters the callers build, and a findAll or
\* findOneIncludeSoftDelete that is given the same object, after or while
\* such calls run, still returns the tombstoned records that match it.
C12_FilterObjectUnchanged ==
  [][/\ shared' = shared
     /\ shared' \in SharedFilters
     /\ (ret'.op = "findAll" /\ ret'.kind = "ok" /\ LimitOf(shared) = None) =>
          \A i \in TombstonedMatches(store, shared) :
             \E k \in DOMAIN ret'.recs : ret'.recs[k] = store[i]
     /\ (ret'.op = "findOneIncludeSoftDelete" /\ ret'.kind = "ok"
           /\ TombstonedMatches(store, shared) # {}
           /\ \A i \in DOMAIN store : store[i].deleted) =>
          (ret'.recs # None /\ ret'.recs[1].deleted)]_vars

\* A findAll given the shared filter object has returned a tombstoned record
\* while the other caller's findById, given the same object, is between its
\* probe and its fetch.
C12_Witness ==
  /\ ret.op = "findAll" /\ ret.kind = "ok"
  /\ \E k \in DOMAIN ret.recs : ret.recs[k].deleted
  /\ \E p \in Callers : pc[p] = "findById_fetch" /\ frame[p].filter = shared

\* A step in which caller p makes a store call and the store fails it (the
\* outcome of such a step does not depend on the arguments of the call).
StoreCallFails(p) ==
  IF Idle(p)
  THEN \/ \E filter \in ArgsOf(TRUE, Filters) :
            \/ Find(p, filter, TRUE)
            \/ FindAll(p, filter, TRUE)
            \/ FindOne(p, filter, TRUE)
            \/ FindOneIncludeSoftDelete(p, filter, TRUE)
            \/ \E id \in ArgsOf(TRUE, Ids) :
                 \/ FindByIdProbe(p, id, filter, TRUE)
                 \/ FindByIdIncludeSoftDelete(p, id, filter, TRUE)
       \/ \E where \in ArgsOf(TRUE, Wheres) :
            \/ Count(p, where, TRUE)
            \/ DeleteAllHard(p, where, TRUE)
            \/ \E data \in ArgsOf(TRUE, Patches) : UpdateAll(p, data, where, TRUE)
       \/ \E entity \in EntityArgs : DeleteHard(p, entity, TRUE)
       \/ \E id \in ArgsOf(TRUE, Ids) : DeleteByIdHard(p, id, TRUE)
  ELSE \/ FindByIdFetch(p, TRUE)
       \/ DeleteUpdate(p, TRUE)
       \/ DeleteAllUpdateAll(p, TRUE)
       \/ DeleteByIdUpdateById(p, TRUE)

\* The operations that address one record by its id.
ByIdOps == {"findById", "findByIdIncludeSoftDelete", "delete", "deleteById",
            "deleteHard", "deleteByIdHard"}

\* The last steps of the calls that take more than one step.
LastStepPcs == {"findById_fetch"} \cup UpdatePcs

\* C13: the one error of the layer's own is EntityNotFound, raised only by
\* the step of findById whose probe finds nothing.  A step whose store call
\* fails ends the call with the store's error and leaves the store as it
\* is; the store's own not-found (no record with the id) reaches the caller
\* as such from findByIdIncludeSoftDelete, from the fetch of findById, from
\* the by-id update of delete and deleteById and from the hard deletes by
\* id; no call on an absent id ends in success.
C13_OnlyEntityNotFoundIsTheLayers ==
  [][/\ ret'.kind \in {"", "ok", "probed", "stamped", "resolved",
                       "EntityNotFound", "StoreError", "StoreNotFound"}
     /\ ret'.kind = "EntityNotFound" =>
          /\ ret'.op = "findById"
          /\ \A p \in Callers : pc[p] \in LastStepPcs => pc'[p] = pc[p]
          /\ \E f \in Filters \cup {shared} :
               StoreFindOne(store, findByIdFilter(ret'.id, f)) = None
          /\ store' = store
     /\ ret'.kind = "StoreNotFound" =>
          /\ ret'.op \in ByIdOps
          /\ ret'.id \notin DOMAIN store
          /\ store' = store
     /\ (ret'.kind = "ok" /\ ret'.op \in ByIdOps) => ret'.id \in DOMAIN store
     /\ \A p \in Callers :
          /\ StoreCallFails(p) =>
               /\ ret'.kind = "StoreError"
               /\ pc'[p] = "idle"
               /\ store' = store
          /\ (pc[p] \in LastStepPcs /\ pc'[p] # pc[p]) =>
               /\ ret'.kind \in {"ok", "StoreError", "StoreNotFound"}
               /\ (ret'.kind # "StoreError" /\ frame[p].id \notin DOMAIN store
                     /\ pc[p] # "deleteAll_updateAll") => ret'.kind = "StoreNotFound"]_vars

\* The fetch of findById has failed with the store's own not-found: the
\* record the probe had found was removed by the other caller's hard delete.
C13_Witness ==
  /\ ret.op = "findById" /\ ret.kind = "StoreNotFound"
  /\ ret.id \notin DOMAIN store

\* C14: the fetch of findById(i) is a store step of its own, taken in
\* whatever state the other caller has left: it never fails with the layer's
\* EntityNotFound; when the record the probe found live is still stored it
\* returns the record as it is now, with deleted = true when it was
\* tombstoned since the probe and with deleted = false otherwise; when a
\* hard delete has removed it, it fails with the store's not-found.
C14_FindByIdFetchSeesLaterState ==
  [][\A p \in Callers :
       (pc[p] = "findById_fetch" /\ pc'[p] # pc[p] /\ ret'.kind # "StoreError") =>
          LET id == frame[p].id
              probed == frame[p].entity[1]
          IN /\ ret'.op = "findById"
             /\ ret'.kind # "EntityNotFound"
             /\ probed.id = id /\ ~probed.deleted
             /\ store' = store
             /\ id \notin DOMAIN store => ret'.kind = "StoreNotFound"
             /\ id \in DOMAIN store =>
                  /\ ret'.kind = "ok"
                  /\ ret'.recs = <<store[id]>>
                  /\ ret'.recs[1].deleted <=> store[id].deleted
                  /\ store[id] = probed => ~ret'.recs[1].deleted]_vars

\* findById has returned a record with deleted = true: the other caller's
\* soft delete tombstoned it between the probe and the fetch.
C14_Witness ==
  /\ ret.op = "findById" /\ ret.kind = "ok"
  /\ ret.recs[1].deleted /\ ret.recs[1].deletedOn # None
  /\ Tombstoned(store, ret.id) /\ ret.recs[1] = store[ret.id]

DeleteAllPcs == {"deleteAll_getUserId", "deleteAll_updateAll"}

\* The records a step has changed.
Changed == {i \in DOMAIN store : i \notin DOMAIN store' \/ store'[i] # store[i]}

\* C15: deleteAll(where) reads the clock when it is called and resolves the
\* actor once; neither value changes while the call is in progress, whatever
\* the clock and the accessor do, and the store is left alone until the last
\* step, which is one bulk update of the store with that one patch: every
\* record it tombstones carries the same deletedOn and the same deletedBy.
C15_DeleteAllOneStampOneRequest ==
  [][\A p \in Procs :
       /\ (ret'.op = "deleteAll" /\ ret'.kind = "stamped") =>
            /\ frame'[p].deletedOn = Some(now)
            /\ store' = store
       /\ (pc[p] \in DeleteAllPcs /\ pc'[p] \in DeleteAllPcs) =>
            /\ frame'[p].deletedOn = frame[p].deletedOn
            /\ frame'[p].where = frame[p].where
            /\ store' = store
       /\ (pc[p] = "deleteAll_updateAll" /\ pc'[p] = pc[p]) =>
            frame'[p].deletedBy = frame[p].deletedBy
       /\ DeleteAllServed(p) =>
            /\ store' = StoreUpdateAll(store, tombstone(frame[p]),
                                       produceSoftDeleteWhere(frame[p].where))
            /\ \A i \in Changed :
                 /\ store'[i].deletedOn = frame[p].deletedOn
                 /\ store'[i].deletedBy = frame[p].deletedBy
            /\ \A i, j \in Changed :
                 /\ store'[i].deletedOn = store'[j].deletedOn
                 /\ store'[i].deletedBy = store'[j].deletedBy]_vars

\* One deleteAll has tombstoned both records with the clock value 1 and the
\* actor "u1" it had read, although the clock stands at 2 and the accessor
\* yields no user by the time the store was updated.
C15_Witness ==
  /\ ret.op = "deleteAll" /\ ret.kind = "ok" /\ ret.count = 2
  /\ now = 2 /\ getCurrentUser = Some(None)
  /\ \A i \in Ids :
       /\ Tombstoned(store, i)
       /\ store[i].deletedOn = Some(1)
       /\ store[i].deletedBy = Some("u1")

HardDeleteOps == {"deleteHard", "deleteAllHard", "deleteByIdHard"}

\* No step turns the deleted flag of a stored record from true to false or
\* adds a record; only a hard delete removes one.
FlagOneWay ==
  /\ \A i \in DOMAIN store' : i \in DOMAIN store /\ (store[i].deleted => store'[i].deleted)
  /\ DOMAIN store' # DOMAIN store => (ret'.op \in HardDeleteOps /\ ret'.kind = "ok")

\* find, findOne and count do not see a tombstoned record.
HiddenFromFindAndCount ==
  /\ (ret'.op \in {"find", "findOne"} /\ ret'.kind = "ok") =>
       \A k \in DOMAIN ret'.recs : ~ret'.recs[k].deleted
  /\ (ret'.op = "count" /\ ret'.kind = "ok") =>
       ret'.count = Cardinality({j \in DOMAIN store :
                                   ~store[j].deleted /\ Match(store[j], ret'.where)})

\* C16 as stated: once a record is tombstoned no step of find*, count,
\* updateAll, delete, deleteAll or deleteById sets its flag back, and no
\* find, findOne, findById or count returns or counts a tombstoned record.
C16_TombstonedNeverSeenAgain ==
  [][/\ FlagOneWay
     /\ HiddenFromFindAndCount
     /\ (ret'.op = "findById" /\ ret'.kind = "ok") => ~ret'.recs[1].deleted]_vars

\* C16 amended: the flag is one-way and only a hard delete removes a
\* record; find, findOne and count never see a tombstoned record; a findById
\* whose probe runs when the record is tombstoned fails with EntityNotFound.
\* A findById returns a tombstoned record only when its probe had found the
\* record live, that is when the record was tombstoned by another caller
\* while the call was between probe and fetch.
C16_TombstoningOneWayButInFlightFindById ==
  [][/\ FlagOneWay
     /\ HiddenFromFindAndCount
     /\ (ret'.op = "findById" /\ ret'.kind \in {"probed", "EntityNotFound"}
           /\ Tombstoned(store, ret'.id)) => ret'.kind = "EntityNotFound"
     /\ \A p \in Callers :
          (pc[p] = "findById_fetch" /\ pc'[p] # pc[p] /\ ret'.kind = "ok"
             /\ ret'.recs[1].deleted) =>
            /\ ~frame[p].entity[1].deleted
            /\ frame[p].entity[1].id = ret'.recs[1].id
            /\ store[ret'.id] # frame[p].entity[1]]_vars

\* updateAll with the data patch {deleted: false} and a where that matches
\* every record has been served and has changed a live record only: the
\* record tombstoned by a soft delete is still tombstoned.
C16_Witness ==
  /\ ret.op = "updateAll" /\ ret.kind = "ok" /\ ret.count = 1
  /\ ret.data = Some([deleted |-> FALSE]) /\ ret.where = {}
  /\ Tombstoned(store, 1) /\ store[1].deletedOn # None
  /\ 2 \in DOMAIN store /\ ~store[2].deleted

\* C17: delete(entity) stamps the caller's entity (deleted = true, deletedOn
\* = the clock, then deletedBy) before its store call and without touching
\* the store; when the store's update then fails, the caller gets the
\* store's error, the store is unchanged, and the entity stays as stamped:
\* for a record that is stored live, the entity says deleted and the record
\* does not.
C17_FailedDeleteLeavesEntityStamped ==
  [][\A p \in Procs :
       /\ (ret'.op = "delete" /\ ret'.kind \in {"stamped", "resolved"}) =>
            /\ store' = store
            /\ pc'[p] \in {"delete_getUserId", "delete_update"}
            /\ ret'.entity = frame'[p].entity
            /\ ret'.entity[1].deleted
            /\ ret'.entity[1].deletedOn # None
       /\ (pc[p] = "delete_update" /\ pc'[p] # pc[p]
             /\ ret'.kind \in {"StoreError", "StoreNotFound"}) =>
            /\ ret'.op = "delete"
            /\ store' = store
            /\ ret'.entity = frame[p].entity
            /\ ret'.entity[1].deleted
            /\ ret'.entity[1].deletedOn # None
            /\ (frame[p].id \in DOMAIN store /\ ~store[frame[p].id].deleted) =>
                 /\ ~store'[frame[p].id].deleted
                 /\ store'[frame[p].id].deletedOn = None
                 /\ ret'.entity[1].deleted # store'[frame[p].id].deleted]_vars

\* A delete has failed with the store's error: the record is stored live,
\* the caller's entity for it is stamped deleted with the clock and the actor.
C17_Witness ==
  /\ ret.op = "delete" /\ ret.kind = "StoreError"
  /\ ret.entity # None
  /\ ret.entity[1].deleted
  /\ ret.entity[1].deletedOn = Some(now)
  /\ ret.entity[1].deletedBy = Some("u1")
  /\ ret.entity[1].id \in DOMAIN store
  /\ ~store[ret.entity[1].id].deleted
  /\ store[ret.entity[1].id].deletedOn = None

====
